---- MODULE Spec2Model ----
(***************************************************************************)
(* Model of src/wad.rs: load_wad_file reads a WAD archive into memory in   *)
(* 512-byte chunks, decodes the 12-byte header and walks the directory of  *)
(* 16-byte records that starts at the offset the header declares.          *)
(*                                                                         *)
(* Bytes are naturals 0..255, byte sequences are TLA+ sequences (1-based;  *)
(* Rust index i is TLA+ index i+1), a decoded string is the sequence of    *)
(* its code points.                                                        *)
(***************************************************************************)
EXTENDS Integers, Sequences, FiniteSets, TLC

VARIABLES
    pc,             \* position in load_wad_file
    overflowChecks, \* build profile: TRUE = overflow checks on (debug), FALSE = wrapping (release)
    file,           \* content of the file at filepath
    filePos,        \* read position of `file` (bytes consumed by File::read)
    buffer,         \* let mut buffer: [u8; BUFFER_LEN]
    wad,            \* let mut wad: Vec<u8>
    readTotal,      \* sum of the read_count values returned so far
    header,         \* signature / num_lumps / off_fat once decoded, else NoHeader
    index,          \* let mut index = off_fat
    directory,      \* let mut directory: Vec<Directory>
    cursors,        \* for each pushed descriptor, the index argument it was read at
    stdout,         \* lines printed by println!
    result          \* how the call ended: "running", "Ok", "IoError" or a panic

vars == <<pc, overflowChecks, file, filePos, buffer, wad, readTotal, header,
          index, directory, cursors, stdout, result>>

----------------------------------------------------------------------------
(* Program constants and integer types *)

BUFFER_LEN == 512

RecordLen == 16

I32Max == 2147483647

I32Min == (-I32Max) - 1

Min(a, b) == IF a < b THEN a ELSE b

\* a + b in i32 with 0 <= b overflows
AddOverflows(a, b) == a > I32Max - b

\* a + b in i32 with 0 <= b, wrapping around as a build without overflow
\* checks does (the sum minus 2^32 once it exceeds I32Max)
WrappingAdd(a, b) ==
    IF AddOverflows(a, b) THEN ((a - I32Max) + (b - 1)) + I32Min ELSE a + b

\* the same four bytes read most significant byte first
FromBeBytes(b) ==
    LET low == b[4] + (256 * b[3]) + (65536 * b[2])
    IN  IF b[1] >= 128 THEN (low + (16777216 * (b[1] - 128))) + I32Min
        ELSE low + (16777216 * b[1])

\* i32::from_le_bytes on a 4-byte slice: the sign is the top bit of b[4]
FromLeBytes(b) ==
    LET low == b[1] + (256 * b[2]) + (65536 * b[3])
    IN  IF b[4] >= 128 THEN (low + (16777216 * (b[4] - 128))) + I32Min
        ELSE low + (16777216 * b[4])

\* wad[lo..hi] with Rust's half-open, 0-based range
Slice(v, lo, hi) == SubSeq(v, lo + 1, hi)

----------------------------------------------------------------------------
(* UTF-8 decoding: std::str::from_utf8 and String::from_utf8_lossy *)

REPLACEMENT == 65533

IsCont(b) == b >= 128 /\ b <= 191

\* number of bytes the lead byte announces, 0 for a byte that cannot lead
Utf8Width(b) ==
    IF b < 128 THEN 1
    ELSE IF b >= 194 /\ b <= 223 THEN 2
    ELSE IF b >= 224 /\ b <= 239 THEN 3
    ELSE IF b >= 240 /\ b <= 244 THEN 4
    ELSE 0

\* range allowed for the second byte after lead byte b
SecondOk(b, c) ==
    IF b = 224 THEN c >= 160 /\ c <= 191
    ELSE IF b = 237 THEN c >= 128 /\ c <= 159
    ELSE IF b = 240 THEN c >= 144 /\ c <= 191
    ELSE IF b = 244 THEN c >= 128 /\ c <= 143
    ELSE IsCont(c)

\* one chunk at position i (1-based) of bs: [ok, n, cp], n bytes consumed
Utf8Chunk(bs, i) ==
    LET b == bs[i]
        w == Utf8Width(b)
        has(k) == i + k <= Len(bs)
    IN  IF w = 1 THEN [ok |-> TRUE, n |-> 1, cp |-> b]
        ELSE IF w = 0 THEN [ok |-> FALSE, n |-> 1, cp |-> REPLACEMENT]
        ELSE IF ~(has(1) /\ SecondOk(b, bs[i + 1]))
             THEN [ok |-> FALSE, n |-> 1, cp |-> REPLACEMENT]
        ELSE IF w = 2
             THEN [ok |-> TRUE, n |-> 2, cp |-> ((b - 192) * 64) + (bs[i + 1] - 128)]
        ELSE IF ~(has(2) /\ IsCont(bs[i + 2]))
             THEN [ok |-> FALSE, n |-> 2, cp |-> REPLACEMENT]
        ELSE IF w = 3
             THEN [ok |-> TRUE, n |-> 3,
                   cp |-> ((b - 224) * 4096) + ((bs[i + 1] - 128) * 64) + (bs[i + 2] - 128)]
        ELSE IF ~(has(3) /\ IsCont(bs[i + 3]))
             THEN [ok |-> FALSE, n |-> 3, cp |-> REPLACEMENT]
        ELSE [ok |-> TRUE, n |-> 4,
              cp |-> ((b - 240) * 262144) + ((bs[i + 1] - 128) * 4096)
                     + ((bs[i + 2] - 128) * 64) + (bs[i + 3] - 128)]

RECURSIVE Utf8From(_, _)
\* [valid, chars] of the bytes of bs from position i on
Utf8From(bs, i) ==
    IF i > Len(bs) THEN [valid |-> TRUE, chars |-> <<>>]
    ELSE LET c    == Utf8Chunk(bs, i)
             rest == Utf8From(bs, i + c.n)
         IN  [valid |-> c.ok /\ rest.valid, chars |-> <<c.cp>> \o rest.chars]

\* std::str::from_utf8(bs).is_ok()
Utf8Valid(bs) == Utf8From(bs, 1).valid

\* String::from_utf8_lossy(bs): every invalid chunk becomes one U+FFFD
FromUtf8Lossy(bs) == Utf8From(bs, 1).chars

----------------------------------------------------------------------------
(* Identification *)

IWAD == <<73, 87, 65, 68>>

PWAD == <<80, 87, 65, 68>>

\* from_str whose last arm yields a variant instead of Err(())
FromStrCatchAll(input) ==
    IF input = IWAD THEN "IWAD" ELSE "PWAD"

\* Identification::from_str: Ok(variant) or Err(())
FromStr(input) ==
    IF input = IWAD THEN "IWAD"
    ELSE IF input = PWAD THEN "PWAD"
    ELSE "Err"

NoHeader == [identification |-> "none", numlumps |-> 0, infotablesofs |-> 0]

----------------------------------------------------------------------------
(* The files the call is run on *)

\* number of whole 512-byte chunks the longest file holds
MaxFullChunks == 1

\* number of different fillings of the bytes the format leaves free
MaxSeed == 1

\* the 4 bytes of n as a two's-complement little-endian integer
Le32(n) ==
    LET m   == IF n < 0 THEN (n + I32Max) + 1 ELSE n
        top == (m \div 16777216) + (IF n < 0 THEN 128 ELSE 0)
    IN  <<m % 256, (m \div 256) % 256, (m \div 65536) % 256, top>>

\* content of the bytes after the header: varies with the position, takes
\* values below and above 128
Filler(i, seed) == ((i * 37) + (seed * 101)) % 256

\* a file of length len: tag, lump count, directory offset, then filler
MakeFile(tag, n, off, len, seed) ==
    LET head == tag \o Le32(n) \o Le32(off)
    IN  [i \in 1 .. len |-> IF i <= 12 THEN head[i] ELSE Filler(i, seed)]

LUMP0000 == <<76, 85, 77, 80, 48, 48, 48, 48>>

LUMP0001 == <<76, 85, 77, 80, 48, 48, 48, 49>>

\* the 52-byte example: header {IWAD, 2, off}, 8 unused bytes, two records
ExampleFile(off, unused) ==
    IWAD \o Le32(2) \o Le32(off) \o unused
         \o Le32(100) \o Le32(4) \o LUMP0000
         \o Le32(200) \o Le32(8) \o LUMP0001

UnusedBytes ==
    {[i \in 1 .. 8 |-> 0], [i \in 1 .. 8 |-> 255]}
       \cup {[i \in 1 .. 8 |-> Filler(i, s)] : s \in 0 .. MaxSeed}

GoodTags == {IWAD, PWAD}

\* not a tag: wrong letter, wrong case, valid non-ASCII text, invalid text,
\* text cut inside a character
BadTags ==
    {<<88, 87, 65, 68>>, <<105, 119, 97, 100>>, <<195, 169, 65, 68>>,
     <<255, 254, 0, 1>>, <<73, 87, 65, 195>>, <<0, 0, 0, 0>>}

LumpCounts == {0, 2, 258, -1, -2, I32Max, I32Min}

\* lengths of the buffers the files below are read into
WadLens == {k * BUFFER_LEN : k \in 1 .. (MaxFullChunks + 1)}

Offsets ==
    {0, 12, 16, -1, -16, -17, -18, I32Min, I32Max, I32Max - 15, I32Max - 16}
       \cup UNION {{l - 32, l - 17, l - 16, l - 15, l - 1, l, l + 1} : l \in WadLens}

LongLens ==
    {52} \cup UNION {{k * BUFFER_LEN, (k * BUFFER_LEN) + 52} : k \in 1 .. MaxFullChunks}

Files ==
    {MakeFile(t, 2, o, l, 0) : t \in GoodTags, o \in Offsets, l \in LongLens}
       \cup {MakeFile(IWAD, n, 12, l, s) : n \in LumpCounts, l \in {12, 52}, s \in 0 .. MaxSeed}
       \cup {MakeFile(t, 2, 12, l, 0) : t \in BadTags, l \in {12, 52, BUFFER_LEN}}
       \cup {MakeFile(t, 2, 12, l, 0) : t \in {IWAD, <<88, 87, 65, 68>>}, l \in 0 .. 11}
       \cup {ExampleFile(o, u) : o \in {12, 20}, u \in UnusedBytes}

\* read counts File::read may return besides min(BUFFER_LEN, bytes remaining)
ShortReads == {1, 12, 100}

----------------------------------------------------------------------------
(* load_wad_file *)

Init ==
    /\ pc = "open"
    /\ overflowChecks \in BOOLEAN
    /\ file \in Files
    /\ filePos = 0
    /\ buffer = [i \in 1 .. BUFFER_LEN |-> 0]
    /\ wad = <<>>
    /\ readTotal = 0
    /\ header = NoHeader
    /\ index = 0
    /\ directory = <<>>
    /\ cursors = <<>>
    /\ stdout = <<>>
    /\ result = "running"

\* return from the call (Ok, or Err through `?`) or unwind from a panic
End(r) ==
    /\ pc' = "returned"
    /\ result' = r

\* line 69: File::open(filepath)?
Open ==
    /\ pc = "open"
    /\ \E ok \in BOOLEAN :
          IF ok THEN pc' = "read" /\ UNCHANGED result
                ELSE End("IoError")
    /\ UNCHANGED <<overflowChecks, file, filePos, buffer, wad, readTotal, header,
                   index, directory, cursors, stdout>>

\* the read counts File::read may return with rem bytes left in the file
ReadCounts(rem) ==
    IF rem = 0 THEN {0}
    ELSE {Min(BUFFER_LEN, rem)} \cup {n \in ShortReads : n <= Min(BUFFER_LEN, rem)}

\* line 74: the bytes appended to wad after a read that returned read_count
Appended(buf, read_count) == buf

\* line 76: the loop is left
ReadLoopExit(read_count) == read_count # BUFFER_LEN

\* lines 72-77: one iteration of the read loop, read succeeding
ReadChunk ==
    /\ pc = "read"
    /\ \E read_count \in ReadCounts(Len(file) - filePos) :
          LET filled == [i \in 1 .. BUFFER_LEN |->
                            IF i <= read_count THEN file[filePos + i] ELSE buffer[i]]
          IN  /\ buffer' = filled
              /\ filePos' = filePos + read_count
              /\ readTotal' = readTotal + read_count
              /\ wad' = wad \o Appended(filled, read_count)
              /\ pc' = IF ReadLoopExit(read_count) THEN "header" ELSE "read"
    /\ UNCHANGED <<overflowChecks, file, header, index, directory, cursors, stdout,
                   result>>

\* line 73: file.read(&mut buffer)? returns Err
ReadError ==
    /\ pc = "read"
    /\ End("IoError")
    /\ UNCHANGED <<overflowChecks, file, filePos, buffer, wad, readTotal, header,
                   index, directory, cursors, stdout>>

\* lines 80-81: Identification::from_str(std::str::from_utf8(&wad[..=3]).unwrap())
\*              .expect(..): the variant, or the panic the statement ends in
Signature(w) ==
    IF Len(w) < 4 THEN "panic: range end index out of range for slice"
    ELSE LET tag == Slice(w, 0, 4)
         IN  IF ~Utf8Valid(tag) THEN "panic: called Result::unwrap() on an Err value: Utf8Error"
             ELSE IF FromStr(FromUtf8Lossy(tag)) = "Err" THEN "panic: Not a valid WAD file!"
             ELSE FromStr(FromUtf8Lossy(tag))

IsPanic(r) == r \notin {"IWAD", "PWAD", "enter", "exit", "running", "Ok", "IoError"}

\* lines 82 and 83: i32::from_le_bytes(wad[lo..=lo+3].try_into().unwrap())
ReadI32(w, lo) == FromLeBytes(Slice(w, lo, lo + 4))

\* lines 79-87: the header is decoded, the directory walk is set up
ReadHeader ==
    /\ pc = "header"
    /\ LET signature == Signature(wad)
       IN  IF IsPanic(signature)
           THEN /\ End(signature)
                /\ UNCHANGED <<header, index>>
           ELSE IF Len(wad) < 12
           THEN /\ End("panic: range end index out of range for slice")
                /\ UNCHANGED <<header, index>>
           ELSE /\ header' = [identification |-> signature,
                              numlumps       |-> ReadI32(wad, 4),
                              infotablesofs  |-> ReadI32(wad, 8)]
                /\ index' = ReadI32(wad, 8)
                /\ pc' = "directory"
                /\ UNCHANGED result
    /\ UNCHANGED <<overflowChecks, file, filePos, buffer, wad, readTotal, directory,
                   cursors, stdout>>

\* the loop condition comparing the start of the record, not its end
WhileCondStart(idx, len, checks) ==
    IF idx < 0 THEN "panic: called Result::unwrap() on an Err value: TryFromIntError"
    ELSE IF idx < len THEN "enter"
    ELSE "exit"

\* line 88: while usize::try_from(index+16).unwrap() < wad.len():
\* "enter", "exit", or the panic the condition ends in
WhileCond(idx, len, checks) ==
    IF AddOverflows(idx, RecordLen) /\ checks THEN "panic: attempt to add with overflow"
    ELSE IF WrappingAdd(idx, RecordLen) < 0
         THEN "panic: called Result::unwrap() on an Err value: TryFromIntError"
    ELSE IF WrappingAdd(idx, RecordLen) < len THEN "enter"
    ELSE "exit"

\* read_directory_entry reading size from the bytes of filepos
ReadDirectoryEntrySameBytes(w, idx) ==
    [filepos |-> FromLeBytes(Slice(w, idx, idx + 4)),
     size    |-> FromLeBytes(Slice(w, idx, idx + 4)),
     name    |-> FromUtf8Lossy(Slice(w, idx + 8, idx + 16))]

\* lines 105-111: read_directory_entry(wad, index); the slices are bounds-checked
ReadDirectoryEntry(w, idx) ==
    [filepos |-> FromLeBytes(Slice(w, idx, idx + 4)),
     size    |-> FromLeBytes(Slice(w, idx + 4, idx + 8)),
     name    |-> FromUtf8Lossy(Slice(w, idx + 8, idx + 16))]

\* the cursor moved by the two integers of a record only
AdvancePastIntegers(idx) == idx + 8

\* line 90: index += 16
Advance(idx) == idx + RecordLen

\* lines 88-91: the loop condition and, when it holds, one loop body
DirectoryStep ==
    /\ pc = "directory"
    /\ LET cond == WhileCond(index, Len(wad), overflowChecks)
       IN  IF IsPanic(cond)
           THEN /\ End(cond)
                /\ UNCHANGED <<index, directory, cursors>>
           ELSE IF cond = "exit"
           THEN /\ pc' = "report"
                /\ UNCHANGED <<index, directory, cursors, result>>
           ELSE IF index < 0
           THEN /\ End("panic: called Result::unwrap() on an Err value: TryFromIntError")
                /\ UNCHANGED <<index, directory, cursors>>
           ELSE IF index + RecordLen > Len(wad)
           THEN /\ End("panic: range end index out of range for slice")
                /\ UNCHANGED <<index, directory, cursors>>
           ELSE /\ directory' = Append(directory, ReadDirectoryEntry(wad, index))
                /\ cursors' = Append(cursors, index)
                /\ index' = Advance(index)
                /\ UNCHANGED <<pc, result>>
    /\ UNCHANGED <<overflowChecks, file, filePos, buffer, wad, readTotal, header,
                   stdout>>

\* lines 93-102: the header and the descriptors are printed, Ok(()) returned
Report ==
    /\ pc = "report"
    /\ stdout' = <<"--- HEADER ---", header, "--- DIRECTORY ---">> \o directory
    /\ End("Ok")
    /\ UNCHANGED <<overflowChecks, file, filePos, buffer, wad, readTotal, header,
                   index, directory, cursors>>

Next == Open \/ ReadChunk \/ ReadError \/ ReadHeader \/ DirectoryStep \/ Report

Spec == Init /\ [][Next]_vars

----------------------------------------------------------------------------
(* Stages of the call *)

\* the read loop has been left normally
ReadingDone == pc \in {"header", "directory", "report"} \/ (pc = "returned" /\ result # "IoError")

\* the header statements (lines 80-83) have run or panicked
HeaderStageDone == pc \in {"directory", "report"} \/ (pc = "returned" /\ result # "IoError")

\* the directory loop has been left normally
WalkDone == pc = "report" \/ (pc = "returned" /\ result = "Ok")

HeaderDecoded == header # NoHeader

IsTag(bs) == bs \in {IWAD, PWAD}

\* the tag the decoder is given
WadTag == Slice(wad, 0, 4)

----------------------------------------------------------------------------
(* Claims *)

\* C1: with 0 <= directory_offset <= buffer_length the finished directory walk
\* has produced exactly floor((buffer_length - directory_offset) / 16)
\* descriptors, the record that ends at the buffer end included.
C1_DescriptorCount ==
    (WalkDone /\ header.infotablesofs >= 0 /\ header.infotablesofs <= Len(wad))
        => Len(directory) = (Len(wad) - header.infotablesofs) \div RecordLen

\* C2: for a directory_offset that is negative or greater than buffer_length
\* the loop body never runs and the walk ends normally with no descriptor: no
\* panic.
C2_OutOfRangeOffsetIsEmpty ==
    (HeaderDecoded /\ (header.infotablesofs < 0 \/ header.infotablesofs > Len(wad)))
        => (directory = <<>> /\ ~IsPanic(result))

FileReadWhole == readTotal = Len(file)

\* C4: for an input of fewer than 12 bytes header decoding fails: no header
\* is produced, no directory record is decoded and the call does not succeed
\* (stated for the runs in which the reads returned the whole input).
C4_ShortInputFails ==
    (Len(file) < 12 /\ FileReadWhole)
        => (~HeaderDecoded /\ directory = <<>> /\ result # "Ok")

\* C5: for a buffer of at least 12 bytes that starts with "IWAD" or "PWAD"
\* header decoding succeeds with the kind of that tag, and lump_count and
\* directory_offset are bytes [4,8) and [8,12) as little-endian two's
\* complement signed 32-bit integers, whatever their value.
C5_HeaderFields ==
    (HeaderStageDone /\ Len(wad) >= 12 /\ IsTag(WadTag))
        => (/\ HeaderDecoded
            /\ header.identification = (IF WadTag = IWAD THEN "IWAD" ELSE "PWAD")
            /\ header.numlumps \in I32Min .. I32Max
            /\ header.infotablesofs \in I32Min .. I32Max
            /\ Le32(header.numlumps) = Slice(wad, 4, 8)
            /\ Le32(header.infotablesofs) = Slice(wad, 8, 12))

C5_Witness ==
    /\ pc = "directory"
    /\ header.identification = "IWAD"
    /\ header.numlumps = I32Min
    /\ Slice(wad, 4, 8) = <<0, 0, 0, 128>>
    /\ header.infotablesofs = 12

\* the buffer begins with the 52 bytes of the example with directory offset off
WadIsExample(off, unused) == Len(wad) >= 52 /\ SubSeq(wad, 1, 52) = ExampleFile(off, unused)

\* C6 as stated: the 52-byte example with directory offset 12 decodes to the
\* header {Full, 2, 12} and to exactly the descriptors {100, 4, "LUMP0000"}
\* and {200, 8, "LUMP0001"}, in that order, for every content of the 8 unused
\* bytes.
C6_Example ==
    (HeaderStageDone /\ \E u \in UnusedBytes : WadIsExample(12, u))
        => (/\ header = [identification |-> "IWAD", numlumps |-> 2, infotablesofs |-> 12]
            /\ Len(directory) <= 2
            /\ Len(directory) >= 1 =>
                  directory[1] = [filepos |-> 100, size |-> 4, name |-> LUMP0000]
            /\ Len(directory) >= 2 =>
                  directory[2] = [filepos |-> 200, size |-> 8, name |-> LUMP0001]
            /\ WalkDone => Len(directory) = 2)

\* C6 amended: a buffer that begins with the 52 bytes of the example decodes
\* to the header {Full, 2, 12}; the walk starts at offset 12, on the 8 unused
\* bytes, so the first descriptor has the unused bytes as file_position and
\* size and the bytes of le32(100) + le32(4) as name, the second has the bytes
\* "LUMP" and "0000" as file_position and size and the bytes of le32(200) +
\* le32(8) as name (200 is no text: one replacement character). With
\* directory offset 20 in the header the first two descriptors are
\* {100, 4, "LUMP0000"} and {200, 8, "LUMP0001"}.
C6_ExampleDecoded ==
    HeaderStageDone =>
        /\ \A u \in UnusedBytes :
              WadIsExample(12, u) =>
                 /\ header = [identification |-> "IWAD", numlumps |-> 2, infotablesofs |-> 12]
                 /\ WalkDone => Len(directory) >= 2
                 /\ Len(directory) >= 1 =>
                       /\ Le32(directory[1].filepos) = SubSeq(u, 1, 4)
                       /\ Le32(directory[1].size) = SubSeq(u, 5, 8)
                       /\ directory[1].name = <<100, 0, 0, 0, 4, 0, 0, 0>>
                 /\ Len(directory) >= 2 =>
                       directory[2] = [filepos |-> 1347245388, size |-> 808464432,
                                       name |-> <<REPLACEMENT, 0, 0, 0, 8, 0, 0, 0>>]
        /\ \A u \in UnusedBytes :
              WadIsExample(20, u) =>
                 /\ header = [identification |-> "IWAD", numlumps |-> 2, infotablesofs |-> 20]
                 /\ WalkDone => Len(directory) >= 2
                 /\ Len(directory) >= 1 =>
                       directory[1] = [filepos |-> 100, size |-> 4, name |-> LUMP0000]
                 /\ Len(directory) >= 2 =>
                       directory[2] = [filepos |-> 200, size |-> 8, name |-> LUMP0001]

C6_Witness ==
    /\ WalkDone
    /\ WadIsExample(12, [i \in 1 .. 8 |-> 255])
    /\ Len(directory) >= 2
    /\ directory[1].filepos = -1

C6_WitnessOffset20 ==
    /\ WalkDone
    /\ WadIsExample(20, [i \in 1 .. 8 |-> 0])
    /\ Len(directory) >= 2

\* C7: every record a descriptor was decoded from lies inside the buffer,
\* bytes [cursor, cursor + 16) with 0 <= cursor and cursor + 16 <=
\* buffer_length, and no read of the decoder goes past the buffer end (which
\* the slice bounds check would stop with a panic).
C7_RecordsInsideBuffer ==
    /\ Len(cursors) = Len(directory)
    /\ \A k \in 1 .. Len(cursors) :
          cursors[k] >= 0 /\ cursors[k] + RecordLen <= Len(wad)
    /\ result # "panic: range end index out of range for slice"

C7_Witness ==
    /\ WalkDone
    /\ Len(wad) = 2 * BUFFER_LEN
    /\ Len(directory) > 0
    /\ cursors[Len(cursors)] + RecordLen = Len(wad) - 1

\* C8: the k-th descriptor (0-based) is decoded from the buffer bytes
\* [directory_offset + 16k, directory_offset + 16k + 16): file_position and
\* size from its first two 4-byte groups as little-endian signed integers,
\* name from its last 8 bytes; the cursor is directory_offset plus 16 per
\* descriptor produced.
C8_RecordOrder ==
    HeaderDecoded =>
        /\ index = header.infotablesofs + (RecordLen * Len(directory))
        /\ \A k \in 1 .. Len(directory) :
              LET at   == header.infotablesofs + (RecordLen * (k - 1))
                  d    == directory[k]
                  text == Slice(wad, at + 8, at + 16)
              IN  /\ Le32(d.filepos) = Slice(wad, at, at + 4)
                  /\ Le32(d.size) = Slice(wad, at + 4, at + 8)
                  /\ d.name = FromUtf8Lossy(text)
                  /\ (\A j \in 1 .. 8 : text[j] < 128) => d.name = text

C8_Witness ==
    /\ WalkDone
    /\ Len(directory) >= 3
    /\ header.infotablesofs = 12
    /\ directory[1] # directory[2]
    /\ directory[2] # directory[3]
    /\ \E k \in 1 .. Len(directory) : directory[k].filepos < 0

\* C9: when the read loop is left, every byte of the file is in the buffer:
\* byte i of the buffer is byte i of the file for every i below the file
\* length.
C9_WholeFileRead ==
    ReadingDone =>
        /\ Len(wad) >= Len(file)
        /\ \A i \in 1 .. Len(file) : wad[i] = file[i]

\* C10: after every iteration of the read loop the buffer is as long as the
\* number of bytes the read calls have returned so far.
C10_LengthIsBytesRead == Len(wad) = readTotal

====
